---- MODULE Spec2Model ----
(***************************************************************************)
(* A model of furca's resource module (src/furca/resource.py): socket      *)
(* resource descriptors, their spec grammar, the descriptor-number handle  *)
(* codec and the collection codec used to hand sockets to a successor      *)
(* process.                                                                *)
(*                                                                         *)
(* Python values are modelled as follows.                                  *)
(*   str        a sequence of pieces: each piece is either a separator     *)
(*              "," or ";" or a maximal separator-free run of characters   *)
(*              (an atom).  "" is << >>, "tcp" is <<"tcp">>, "3,tcp,,80"   *)
(*              is <<"3", ",", "tcp", ",", ",", "80">>.  split and join    *)
(*              work on the pieces.                                        *)
(*   None, IPv4Address, IPv6Address, tuples, resources                     *)
(*              records with a py field naming the Python type.            *)
(*   a call     [exc |-> "" , val |-> v] when it returns v,                *)
(*              [exc |-> e, val |-> None] when it raises e.                *)
(***************************************************************************)
EXTENDS Integers, Sequences, FiniteSets, TLC

VARIABLES
    platform,   \* what the socket module of this platform offers
    fds,        \* the process's descriptor table
    handles,    \* the live socket objects (SocketType) of this generation
    ret         \* the last call and what it returned or raised

vars == <<platform, fds, handles, ret>>

(***************************************************************************)
(* Bounds of the model.                                                    *)
(***************************************************************************)
MaxFd == 6          \* descriptor numbers 0 .. MaxFd-1 (the table stands for an
                    \* unbounded one: create and decode are asked for only
                    \* while a number is free)
MaxGai == 2         \* getaddrinfo results per lookup
MaxEntries == 2     \* entries of an aggregate string given to the decoder

(***************************************************************************)
(* Python values.                                                          *)
(***************************************************************************)
None == [py |-> "NoneType"]

Ok(v) == [exc |-> "", val |-> v]

Raise(e) == [exc |-> e, val |-> None]

IPv4Address(text) == [py |-> "IPv4Address", text |-> text]

IPv6Address(text) == [py |-> "IPv6Address", text |-> text]

PyStr(s) == [py |-> "str", s |-> s]

PyTuple2(a, b) == [py |-> "tuple", host |-> a, port |-> b]

Separators == {",", ";"}

\* The texts ipaddress.ip_address accepts, with the canonical text of the address.
V4Texts == [x \in {"10.0.0.1", "0.0.0.0"} |-> x]

V6Texts == [x \in {"::1", "::", "0:0:0:0:0:0:0:1"} |->
              IF x = "0:0:0:0:0:0:0:1" THEN "::1" ELSE x]

\* ipaddress.ip_address(s) for a str s
ip_address(s) ==
    IF Len(s) = 1 /\ s[1] \in DOMAIN V4Texts THEN Ok(IPv4Address(V4Texts[s[1]]))
    ELSE IF Len(s) = 1 /\ s[1] \in DOMAIN V6Texts THEN Ok(IPv6Address(V6Texts[s[1]]))
    ELSE Raise("ValueError")

\* The texts int() accepts, with their value.
IntTexts ==
    [x \in {"0", "1", "2", "3", "4", "5", "6", "7", "80", "080", "-1"} |->
        CASE x = "0" -> 0 [] x = "1" -> 1 [] x = "2" -> 2 [] x = "3" -> 3
          [] x = "4" -> 4 [] x = "5" -> 5 [] x = "6" -> 6 [] x = "7" -> 7
          [] x = "80" -> 80 [] x = "080" -> 80 [] x = "-1" -> -1]

\* int(s) for a str s
int(s) ==
    IF Len(s) = 1 /\ s[1] \in DOMAIN IntTexts THEN Ok(IntTexts[s[1]])
    ELSE Raise("ValueError")

\* str(n) for an int n
str_int(n) ==
    <<CHOOSE x \in DOMAIN IntTexts : IntTexts[x] = n /\ x # "080">>

\* str(x) for an address object, a str, or None
str_host(x) ==
    CASE x.py = "IPv4Address" -> <<x.text>>
      [] x.py = "IPv6Address" -> <<x.text>>
      [] x.py = "str" -> x.s
      [] x.py = "NoneType" -> <<"None">>

\* bool(x): None and "" are false, every address object is true
truthy(x) ==
    CASE x.py = "NoneType" -> FALSE
      [] x.py = "str" -> x.s # << >>
      [] OTHER -> TRUE

\* the value of a singleton set: The({e : x \in {v}}) is e with the local
\* variable x assigned v
The(S) == CHOOSE x \in S : TRUE

\* sep.join(list) for a list of str
RECURSIVE join(_, _)
join(sep, list) ==
    IF Len(list) = 0 THEN << >>
    ELSE IF Len(list) = 1 THEN list[1]
    ELSE list[1] \o <<sep>> \o join(sep, Tail(list))

\* index of the first piece sep of s at or after i, or 0
RECURSIVE find(_, _, _)
find(s, sep, i) ==
    IF i > Len(s) THEN 0
    ELSE IF s[i] = sep THEN i
    ELSE find(s, sep, i + 1)

\* s.split(sep, maxsplit); maxsplit = -1 is no limit
RECURSIVE split(_, _, _)
split(s, sep, maxsplit) ==
    The({IF maxsplit = 0 \/ i = 0 THEN <<s>>
         ELSE <<SubSeq(s, 1, i - 1)>>
                 \o split(SubSeq(s, i + 1, Len(s)), sep,
                          IF maxsplit < 0 THEN maxsplit ELSE maxsplit - 1) :
         i \in {find(s, sep, 1)}})

(***************************************************************************)
(* The registry.                                                           *)
(***************************************************************************)
TCP_IDENTS == {"tcp", "tcp4", "tcp6"}

UDP_IDENTS == {"udp", "udp4", "udp6"}

\* RESOURCE_IDENTS after the two classes are declared
RESOURCE_IDENTS ==
    [i \in TCP_IDENTS \cup UDP_IDENTS |->
        IF i \in TCP_IDENTS THEN "TCPResource" ELSE "UDPResource"]

(***************************************************************************)
(* IPResource: family and dual-stack deduction, address tokens.            *)
(***************************************************************************)
\* socket.has_dualstack_ipv6()
has_dualstack_ipv6 == platform.dualstack

\* the first getaddrinfo result the loop of __init__ stops at (0: none)
first_usable(gai) ==
    LET hits == {i \in 1..Len(gai) : gai[i].family \in {"AF_INET6", "AF_INET"}} IN
    IF hits = {} THEN 0 ELSE CHOOSE i \in hits : \A j \in hits : i <= j

\* the for ... else of __init__: host after name resolution
resolve_host(host, gai) ==
    IF truthy(host) /\ host.py \notin {"IPv4Address", "IPv6Address"}
    THEN LET i == first_usable(gai) IN
         IF i = 0 THEN Raise("ValueError: can not resolve")
         ELSE IF gai[i].family = "AF_INET6" THEN Ok(IPv6Address(gai[i].addr))
         ELSE Ok(IPv4Address(gai[i].addr))
    ELSE Ok(host)

\* family and dualstack_val of __init__ for the resolved host
deduce_family(host, dualstack) ==
    IF host.py = "IPv6Address"
    THEN [family |-> "AF_INET6", dualstack |-> (dualstack = "True")]
    ELSE IF host.py = "IPv4Address"
    THEN [family |-> "AF_INET", dualstack |-> FALSE]
    ELSE IF has_dualstack_ipv6 /\ dualstack # "False"
    THEN [family |-> "AF_INET6", dualstack |-> TRUE]
    ELSE [family |-> "AF_INET", dualstack |-> FALSE]

\* (mutant) the check that ends __init__ is left out
dualstack_unavailable_never(dualstack_val) ==
    FALSE

\* the check that ends __init__: does it raise?
dualstack_unavailable(dualstack_val) ==
    dualstack_val /\ ~has_dualstack_ipv6

\* IPResource.__init__ called from class cls; dualstack is "None", "True", "False"
\* or "0"; gai is what socket.getaddrinfo returns for a name
IPResource_init(cls, type, addr, protocol, dualstack, gai) ==
    LET h == resolve_host(addr.host, gai) IN
    IF h.exc # "" THEN h
    ELSE LET d == deduce_family(h.val, dualstack) IN
         IF dualstack_unavailable(d.dualstack)
         THEN Raise("ValueError: dual-stack requested but not available")
         ELSE Ok([py |-> cls, family |-> d.family, type |-> type,
                  addr |-> PyTuple2(PyStr(IF truthy(h.val) THEN str_host(h.val)
                                          ELSE << >>), addr.port),
                  protocol |-> protocol, dualstack |-> d.dualstack])

TCPResource_init(addr, dualstack, gai) ==
    IPResource_init("TCPResource", "SOCK_STREAM", addr, "IPPROTO_TCP", dualstack, gai)

UDPResource_init(addr, dualstack, gai) ==
    IPResource_init("UDPResource", "SOCK_DGRAM", addr, "IPPROTO_UDP", dualstack, gai)

\* what decode_addr returns for well-formed tokens: a tuple of two
decode_addr_result(host, port, dualstack, rest) ==
    <<PyTuple2(host, port), rest>>

\* IPResource.decode_addr(args); the value is the tuple returned
decode_addr(args) ==
    IF Len(args) < 1 THEN Raise("IndexError")
    ELSE LET h == IF args[1] # << >> THEN ip_address(args[1]) ELSE Ok(None) IN
         IF h.exc = "ValueError" THEN Ok(<<None, args>>)
         ELSE IF Len(args) < 2 THEN Raise("IndexError")
         ELSE LET p == int(args[2]) IN
              IF p.exc = "ValueError" THEN Ok(<<None, args>>)
              ELSE IF Len(args) > 2 /\ args[3] \in {<<"single">>, <<"dual">>}
              THEN Ok(decode_addr_result(h.val, p.val,
                          IF args[3] = <<"dual">> THEN "True" ELSE "False",
                          SubSeq(args, 4, Len(args))))
              ELSE Ok(decode_addr_result(h.val, p.val, "0",
                          SubSeq(args, 3, Len(args))))

\* IPResource.encode_addr
encode_addr(self) ==
    <<IF truthy(self.addr.host) THEN str_host(self.addr.host) ELSE << >>,
      str_int(self.addr.port),
      IF self.dualstack THEN <<"dual">> ELSE <<"single">> >>

check_ipv4(addr) ==
    IF ~truthy(addr.host) THEN Ok(PyTuple2(IPv4Address("0.0.0.0"), addr.port))
    ELSE IF addr.host.py = "IPv6Address"
    THEN Raise("ValueError: IPv6 address given for IPv4 socket")
    ELSE Ok(addr)

check_ipv6(addr) ==
    IF ~truthy(addr.host) THEN Ok(PyTuple2(IPv6Address("::"), addr.port))
    ELSE IF addr.host.py = "IPv4Address"
    THEN Raise("ValueError: IPv4 address given for IPv6 socket")
    ELSE Ok(addr)

(***************************************************************************)
(* TCPResource and UDPResource: the per-resource spec grammar.             *)
(***************************************************************************)
\* cls(addr, dualstack=dualstack) for a literal or empty host: no lookup is made
construct(cls, addr, dualstack) ==
    IF cls = "TCPResource" THEN TCPResource_init(addr, dualstack, << >>)
    ELSE UDPResource_init(addr, dualstack, << >>)

\* the body TCPResource.decode_spec and UDPResource.decode_spec share; v4 and v6
\* are the class's forced-family identifiers
ip_decode_spec(cls, v4, v6, ident, args) ==
    The({IF r.exc # "" THEN r
         ELSE IF Len(r.val) # 3
         THEN Raise("ValueError: not enough values to unpack")
         ELSE IF ~truthy(r.val[1]) THEN Ok(None)
         ELSE The({IF addr.exc # "" THEN addr
                   ELSE construct(cls, addr.val, r.val[2]) :
                   addr \in {IF ident = v4 THEN check_ipv4(r.val[1])
                             ELSE IF ident = v6 THEN check_ipv6(r.val[1])
                             ELSE Ok(r.val[1])}}) :
         r \in {decode_addr(args)}})

TCPResource_decode_spec(ident, args) ==
    ip_decode_spec("TCPResource", "tcp4", "tcp6", ident, args)

UDPResource_decode_spec(ident, args) ==
    ip_decode_spec("UDPResource", "udp4", "udp6", ident, args)

TCPResource_encode_spec(self) ==
    LET host == self.addr.host IN
    IF ~truthy(host) THEN Ok([ident |-> "tcp", args |-> encode_addr(self)])
    ELSE IF host.py = "IPv4Address" THEN Ok([ident |-> "tcp4", args |-> encode_addr(self)])
    ELSE IF host.py = "IPv6Address" THEN Ok([ident |-> "tcp6", args |-> encode_addr(self)])
    ELSE Raise("UnboundLocalError")

UDPResource_encode_spec(self) ==
    LET host == self.addr.host
        ident1 == IF ~truthy(host) THEN "udp" ELSE ""
        ident2 == IF host.py = "IPv4Address" THEN "udp4"
                  ELSE IF host.py = "IPv6Address" THEN "udp6"
                  ELSE ident1 IN
    IF ident2 = "" THEN Raise("UnboundLocalError")
    ELSE Ok([ident |-> ident2, args |-> encode_addr(self)])

\* resource.encode_spec(), dispatched on the class
encode_spec(self) ==
    IF self.py = "TCPResource" THEN TCPResource_encode_spec(self)
    ELSE UDPResource_encode_spec(self)

\* cls.decode_spec(ident, args), dispatched on the class
decode_spec(cls, ident, args) ==
    IF cls = "TCPResource" THEN TCPResource_decode_spec(ident, args)
    ELSE UDPResource_decode_spec(ident, args)

(***************************************************************************)
(* The spec codec.                                                         *)
(***************************************************************************)
encode_resource_spec(resource) ==
    The({IF e.exc # "" THEN e
         ELSE Ok(<<e.val.ident>> \o <<",">> \o join(",", e.val.args)) :
         e \in {encode_spec(resource)}})

\* decode_resource_spec(value): a resource or None, it never raises
decode_resource_spec(value) ==
    The({IF ~(Len(ident) = 1 /\ ident[1] \in DOMAIN RESOURCE_IDENTS) THEN None
         ELSE The({IF r.exc # "" THEN None ELSE r.val :
                   r \in {decode_spec(RESOURCE_IDENTS[ident[1]], ident[1],
                                      Tail(split(value, ",", -1)))}}) :
         ident \in {split(value, ",", -1)[1]}})

(***************************************************************************)
(* The process: its descriptor table and its socket objects.  A process    *)
(* state st is [fds, handles].                                             *)
(***************************************************************************)
FdNums == 0 .. MaxFd - 1

Closed == [kind |-> "closed"]

StdStream == [kind |-> "file", inheritable |-> TRUE]

IsOpen(tbl, n) == n \in FdNums /\ tbl[n].kind # "closed"

FreeFds(tbl) == {n \in FdNums : tbl[n].kind = "closed"}

\* the lowest free descriptor number: what socket() and dup() hand out
LowestFree(tbl) == CHOOSE n \in FreeFds(tbl) : \A m \in FreeFds(tbl) : n <= m

\* a name for a socket that no open descriptor refers to
NewSock(tbl) ==
    LET used == {tbl[n].sock : n \in {m \in FdNums : tbl[m].kind = "socket"}} IN
    CHOOSE s \in 1..MaxFd : s \notin used /\ \A t \in 1..MaxFd : t \notin used => s <= t

\* a socket object (SocketType) on descriptor fd, kept for resource res
Handle(fd, res) == [py |-> "socket", fd |-> fd, res |-> res]

\* (mutant) no duplicate is made: the number given is handed back
os_dup_same(st, fd) ==
    IF ~IsOpen(st.fds, fd) THEN [st |-> st, ok |-> FALSE, fd |-> -1]
    ELSE [st |-> st, ok |-> TRUE, fd |-> fd]

\* os.dup(fd): ok and the new number, or OSError; the duplicate is not inheritable
os_dup(st, fd) ==
    IF ~IsOpen(st.fds, fd) \/ FreeFds(st.fds) = {}
    THEN [st |-> st, ok |-> FALSE, fd |-> -1]
    ELSE LET n == LowestFree(st.fds) IN
         [st |-> [st EXCEPT !.fds[n] = [st.fds[fd] EXCEPT !.inheritable = FALSE]],
          ok |-> TRUE, fd |-> n]

\* encode_fd(fd): marks fd inheritable and returns its number as text
encode_fd(st, fd) ==
    IF ~IsOpen(st.fds, fd) THEN [st |-> st, exc |-> "OSError", val |-> << >>]
    ELSE [st |-> [st EXCEPT !.fds[fd].inheritable = TRUE],
          exc |-> "", val |-> str_int(fd)]

\* decode_fd(val): a duplicate of the descriptor val names, or None (ok = FALSE)
decode_fd(st, val) ==
    The({IF n.exc # "" THEN [st |-> st, ok |-> FALSE, fd |-> -1]
         ELSE os_dup(st, n.val) :
         n \in {int(val)}})

\* hasattr(socket, "SO_REUSEPORT")
HasReusePort == TRUE

\* IPResource._bind: does it raise for want of SO_REUSEPORT?
bind_unsupported(reuse) == reuse /\ ~HasReusePort

\* SocketResource.create(reuse): socket(), set_inheritable, _bind.  A socket whose
\* bind raises is dropped, and closed with it.
SocketResource_create(st, self, reuse) ==
    IF FreeFds(st.fds) = {} THEN [st |-> st, exc |-> "OSError", val |-> None]
    ELSE IF bind_unsupported(reuse) THEN [st |-> st, exc |-> "ValueError", val |-> None]
    ELSE LET n == LowestFree(st.fds)
             s == [kind |-> "socket", sock |-> NewSock(st.fds),
                   family |-> self.family, type |-> self.type,
                   laddr |-> self.addr,
                   v6only |-> IF self.family = "AF_INET6" THEN ~self.dualstack
                              ELSE FALSE,
                   inheritable |-> TRUE] IN
         [st |-> [fds |-> [st.fds EXCEPT ![n] = s],
                  handles |-> st.handles \cup {Handle(n, self)}],
          exc |-> "", val |-> Handle(n, self)]

\* SocketResource.destroy(instance): close()
SocketResource_destroy(st, instance) ==
    [st EXCEPT !.fds[instance.fd] = Closed, !.handles = st.handles \ {instance}]

\* SocketResource.encode(instance)
SocketResource_encode(st, instance) ==
    encode_fd(st, instance.fd)

\* SocketResource.decode(value): a socket object on a duplicate, or None.  When
\* SocketType(fileno=fd) raises, the duplicate stays open.
SocketResource_decode(st, self, value) ==
    The({IF ~d.ok THEN [st |-> st, val |-> None]
         ELSE IF d.st.fds[d.fd].kind # "socket" THEN [st |-> d.st, val |-> None]
         ELSE [st |-> [d.st EXCEPT !.handles = d.st.handles \cup {Handle(d.fd, self)}],
               val |-> Handle(d.fd, self)] :
         d \in {decode_fd(st, value)}})

\* exec of the successor: descriptors not marked inheritable are closed, and no
\* object of the old process image is left
exec(st) ==
    [st EXCEPT !.fds = [n \in FdNums |->
                           IF st.fds[n].kind # "closed" /\ st.fds[n].inheritable
                           THEN st.fds[n] ELSE Closed],
               !.handles = {}]

(***************************************************************************)
(* The collection codec.  A collection (CreatedResources) is the sequence  *)
(* of its socket objects in iteration order, each with its resource.       *)
(***************************************************************************)
\* encode_resource_values: the loop from entry i on, acc the entries so far
RECURSIVE encode_loop(_, _, _, _)
encode_loop(st, resources, i, acc) ==
    IF i > Len(resources) THEN [st |-> st, exc |-> "", val |-> join(";", acc)]
    ELSE The({IF spec.exc # "" THEN [st |-> st, exc |-> spec.exc, val |-> << >>]
              ELSE IF value.exc # ""
              THEN [st |-> value.st, exc |-> value.exc, val |-> << >>]
              ELSE encode_loop(value.st, resources, i + 1,
                               Append(acc, value.val \o <<",">> \o spec.val)) :
              spec \in {encode_resource_spec(resources[i].res)},
              value \in {SocketResource_encode(st, resources[i])}})

encode_resource_values(st, resources) ==
    encode_loop(st, resources, 1, << >>)

\* a raise out of decode_resource_values: the mapping r built so far is dropped,
\* and the socket objects in it are closed with it
decode_raise(st, r, e) ==
    [st |-> [st EXCEPT !.fds = [n \in FdNums |->
                                   IF \E h \in r : h.fd = n THEN Closed ELSE st.fds[n]],
                       !.handles = st.handles \ r],
     exc |-> e, val |-> {}]

RECURSIVE decode_loop(_, _, _, _)

\* (mutant) an entry whose spec decodes to no resource is skipped
invalid_spec_skip(st, r, entries, i) ==
    decode_loop(st, r, entries, i + 1)

\* "if not rtype: raise ValueError" in the loop of decode_resource_values
invalid_spec(st, r, entries, i) ==
    decode_raise(st, r, "ValueError: invalid resource specification")

\* "if rvalue is None: r[rtype] = rtype.create()" in the loop
fallback_create(st, r, entries, i, rtype) ==
    The({IF c.exc # "" THEN decode_raise(st, r, c.exc)
         ELSE decode_loop(c.st, r \cup {c.val}, entries, i + 1) :
         c \in {SocketResource_create(st, rtype, FALSE)}})

\* decode_resource_values: the loop from entry i on, r the mapping so far (the
\* socket objects, each with the resource it is stored under)
decode_loop(st, r, entries, i) ==
    IF i > Len(entries) THEN [st |-> st, exc |-> "", val |-> r]
    ELSE The({
         IF Len(parts) # 2
         THEN decode_raise(st, r, "ValueError: not enough values to unpack")
         ELSE The({
              IF ~truthy(rtype) THEN invalid_spec(st, r, entries, i)
              ELSE IF \E h \in r : h.res = rtype
              THEN decode_loop(st, r, entries, i + 1)
              ELSE The({
                   IF rvalue.val = None
                   THEN fallback_create(rvalue.st, r, entries, i, rtype)
                   ELSE decode_loop(rvalue.st, r \cup {rvalue.val}, entries, i + 1) :
                   rvalue \in {SocketResource_decode(st, rtype, parts[1])}}) :
              rtype \in {decode_resource_spec(parts[2])}}) :
         parts \in {split(entries[i], ",", 1)}})

decode_resource_values(st, values) ==
    decode_loop(st, {}, split(values, ";", -1), 1)

(***************************************************************************)
(* Inputs.                                                                 *)
(***************************************************************************)
Hosts ==
    {None, PyStr(<< >>), IPv4Address("10.0.0.1"), IPv6Address("::1"),
     PyStr(<<"localhost">>)}

DualstackArgs == {"None", "True", "False"}

GaiResults ==
    {[family |-> "AF_INET", addr |-> "10.0.0.1"],
     [family |-> "AF_INET6", addr |-> "::1"],
     [family |-> "AF_OTHER", addr |-> ""]}

\* the lists of at most n elements of S
RECURSIVE SeqsUpTo(_, _)
SeqsUpTo(S, n) ==
    IF n = 0 THEN {<< >>}
    ELSE LET shorter == SeqsUpTo(S, n - 1) IN
         shorter \cup {Append(q, x) : q \in shorter, x \in S}

IsName(host) == truthy(host) /\ host.py = "str"

\* token lists given to decode_addr and decode_spec
HostTokens == {<< >>, <<"10.0.0.1">>, <<"::1">>, <<"0:0:0:0:0:0:0:1">>, <<"localhost">>}

PortTokens == {<<"80">>, <<"080">>, <<"http">>}

ArgLists ==
    {<< >>, <<<<"::1">>>>}
    \cup {<<h, p>> : h \in HostTokens, p \in PortTokens}
    \cup {<<h, <<"80">>, m>> : h \in {<< >>, <<"::1">>},
                              m \in {<<"single">>, <<"dual">>, <<"both">>}}

\* the resources the process creates sockets for
TcpAny == TCPResource_init(PyTuple2(None, 80), "None", << >>).val

UdpAny == UDPResource_init(PyTuple2(None, 80), "False", << >>).val

TcpV4 == TCPResource_init(PyTuple2(IPv4Address("10.0.0.1"), 80), "None", << >>).val

ResDescs == {TcpAny, UdpAny, TcpV4}

\* texts given to decode as a handle value: the number of a standard stream, of
\* a descriptor opened since, of a descriptor that is not open, and no number
ValueTexts ==
    {str_int(n) : n \in {0} \cup {m \in FdNums : m > 2 /\ IsOpen(fds, m)}}
    \cup {<<"7">>, <<"zz">>}

\* entries of aggregate strings given to decode_resource_values
EntrySpecs ==
    {<<"tcp", ",", ",", "80">>,
     <<"udp4", ",", "10.0.0.1", ",", "80", ",", "single">>,
     <<"foo", ",", ",", "80">>}

Entries ==
    {<<"3", ",", "tcp", ",", ",", "80">>,
     <<"zz", ",", "tcp", ",", ",", "80">>,
     <<"3", ",", "foo", ",", ",", "80">>,
     <<"3">>}

AggregateInputs == {join(";", q) : q \in SeqsUpTo(Entries, MaxEntries) \ {<< >>}}

(***************************************************************************)
(* The state machine.                                                      *)
(***************************************************************************)
proc == [fds |-> fds, handles |-> handles]

NoCall == [op |-> "none"]

Init ==
    /\ platform \in [dualstack : BOOLEAN]
    /\ fds = [n \in FdNums |-> IF n <= 2 THEN StdStream ELSE Closed]
    /\ handles = {}
    /\ ret = NoCall

SetProc(st) ==
    /\ fds' = st.fds
    /\ handles' = st.handles

\* TCPResource(addr, dualstack) / UDPResource(addr, dualstack)
Construct(cls, host, dualstack, gai) ==
    LET r == IPResource_init(cls,
                 IF cls = "TCPResource" THEN "SOCK_STREAM" ELSE "SOCK_DGRAM",
                 PyTuple2(host, 80),
                 IF cls = "TCPResource" THEN "IPPROTO_TCP" ELSE "IPPROTO_UDP",
                 dualstack, gai) IN
    /\ ret' = [op |-> "construct", cls |-> cls, host |-> host,
               dualstack |-> dualstack, gai |-> gai, exc |-> r.exc, val |-> r.val]
    /\ UNCHANGED <<platform, fds, handles>>

\* self.encode_spec() of the resource just constructed
EncodeSpec ==
    /\ ret.op = "construct"
    /\ ret.exc = ""
    /\ LET r == encode_spec(ret.val) IN
       ret' = [op |-> "encode_spec", self |-> ret.val, exc |-> r.exc, val |-> r.val]
    /\ UNCHANGED <<platform, fds, handles>>

\* RESOURCE_IDENTS[ident].decode_spec(ident, args)
DecodeSpec(ident, args) ==
    LET r == decode_spec(RESOURCE_IDENTS[ident], ident, args) IN
    /\ ret' = [op |-> "decode_spec", ident |-> ident, args |-> args,
               exc |-> r.exc, val |-> r.val]
    /\ UNCHANGED <<platform, fds, handles>>

\* IPResource.decode_addr(args)
DecodeAddr(args) ==
    LET r == decode_addr(args) IN
    /\ ret' = [op |-> "decode_addr", args |-> args, exc |-> r.exc, val |-> r.val]
    /\ UNCHANGED <<platform, fds, handles>>

\* IPResource.check_ipv4(addr) / IPResource.check_ipv6(addr)
CheckFamily(which, host) ==
    LET addr == PyTuple2(host, 80)
        r == IF which = "check_ipv4" THEN check_ipv4(addr) ELSE check_ipv6(addr) IN
    /\ ret' = [op |-> which, addr |-> addr, exc |-> r.exc, val |-> r.val]
    /\ UNCHANGED <<platform, fds, handles>>

\* decode_resource_spec(value)
DecodeResourceSpec(value) ==
    /\ ret' = [op |-> "decode_resource_spec", value |-> value,
               val |-> decode_resource_spec(value)]
    /\ UNCHANGED <<platform, fds, handles>>

\* res.create(reuse).  A generation keeps one handle per descriptor (its
\* collection is a mapping), so it asks for one only while it has none.
Create(res, reuse) ==
    /\ FreeFds(fds) # {}
    /\ ~\E h \in handles : h.res = res
    /\ LET r == SocketResource_create(proc, res, reuse) IN
       /\ SetProc(r.st)
       /\ ret' = [op |-> "create", res |-> res, reuse |-> reuse,
                  exc |-> r.exc, val |-> r.val]
    /\ UNCHANGED platform

\* h.res.destroy(h)
Destroy(h) ==
    /\ SetProc(SocketResource_destroy(proc, h))
    /\ ret' = [op |-> "destroy", instance |-> h]
    /\ UNCHANGED platform

\* h.res.encode(h)
Encode(h) ==
    LET r == SocketResource_encode(proc, h) IN
    /\ SetProc(r.st)
    /\ ret' = [op |-> "encode", instance |-> h, exc |-> r.exc, val |-> r.val]
    /\ UNCHANGED platform

\* res.decode(value), asked for while the generation has no handle for res
Decode(res, value) ==
    /\ FreeFds(fds) # {}
    /\ ~\E h \in handles : h.res = res
    /\ LET r == SocketResource_decode(proc, res, value) IN
       /\ SetProc(r.st)
       /\ ret' = [op |-> "decode", res |-> res, value |-> value, val |-> r.val]
    /\ UNCHANGED platform

\* the supervisor execs the successor
Exec ==
    /\ SetProc(exec(proc))
    /\ ret' = [op |-> "exec"]
    /\ UNCHANGED platform

\* the collections over the live socket objects: one object per resource
Collections ==
    {q \in SeqsUpTo(handles, Cardinality(ResDescs)) :
        \A i, j \in 1..Len(q) : i # j => q[i].res # q[j].res}

\* encode_resource_values(resources)
EncodeValues(resources) ==
    \E r \in {encode_resource_values(proc, resources)} :
    /\ SetProc(r.st)
    /\ ret' = [op |-> "encode_resource_values", resources |-> resources,
               exc |-> r.exc, val |-> r.val]
    /\ UNCHANGED platform

\* decode_resource_values(values)
DecodeValues(values) ==
    \E r \in {decode_resource_values(proc, values)} :
    /\ SetProc(r.st)
    /\ ret' = [op |-> "decode_resource_values", values |-> values,
               exc |-> r.exc, val |-> r.val]
    /\ UNCHANGED platform

\* the handle lifecycle of one generation after another
Next ==
    \/ Create(TcpAny, FALSE)
    \/ \E h \in handles : Destroy(h)
    \/ \E h \in handles : Encode(h)
    \/ \E res \in {TcpAny, TcpV4}, value \in ValueTexts : Decode(res, value)
    \/ Exec

Spec == Init /\ [][Next]_vars

\* the collection codec within one generation
NextCollection ==
    \/ \E res \in ResDescs : Create(res, FALSE)
    \/ \E resources \in Collections : EncodeValues(resources)
    \/ \E values \in AggregateInputs \cup
                     (IF ret.op = "encode_resource_values" /\ ret.exc = ""
                      THEN {ret.val} ELSE {}) :
          DecodeValues(values)

SpecCollection == Init /\ [][NextCollection]_vars

\* the descriptors and their spec grammar
NextCodec ==
    \/ \E cls \in {"TCPResource", "UDPResource"}, host \in Hosts,
          dualstack \in DualstackArgs :
          \E gai \in (IF IsName(host) THEN SeqsUpTo(GaiResults, MaxGai) ELSE {<< >>}) :
             Construct(cls, host, dualstack, gai)
    \/ EncodeSpec
    \/ \E ident \in DOMAIN RESOURCE_IDENTS :
          \E args \in ArgLists \cup
                      (IF ret.op = "encode_spec" /\ ret.exc = ""
                       THEN {ret.val.args} ELSE {}) :
             DecodeSpec(ident, args)
    \/ \E args \in ArgLists : DecodeAddr(args)
    \/ \E which \in {"check_ipv4", "check_ipv6"}, host \in Hosts \ {PyStr(<<"localhost">>)} :
          CheckFamily(which, host)
    \/ \E value \in EntrySpecs : DecodeResourceSpec(value)

SpecCodec == Init /\ [][NextCodec]_vars

(***************************************************************************)
(* The claims.                                                             *)
(***************************************************************************)
\* the entries of an aggregate string, each split at its first comma
EntryParts(values) ==
    LET es == split(values, ";", -1) IN
    [i \in 1..Len(es) |-> split(es[i], ",", 1)]

\* the identifier an entry carries (<< >> when the entry has no spec body)
EntryIdent(parts) ==
    IF Len(parts) = 2 THEN split(parts[2], ",", -1)[1] ELSE << >>

Registered(ident) == Len(ident) = 1 /\ ident[1] \in DOMAIN RESOURCE_IDENTS

\* entry i has a spec body whose identifier is not registered
UnknownIdentAt(values, i) ==
    LET ps == EntryParts(values) IN
    i \in 1..Len(ps) /\ Len(ps[i]) = 2 /\ ~Registered(EntryIdent(ps[i]))

\* a spec body of the grammar: a registered identifier, then an empty or literal
\* host, an integer port and at most a stack marker
SpecOfGrammar(body) ==
    LET ts == split(body, ",", -1) IN
    /\ Registered(ts[1])
    /\ Len(ts) \in {3, 4}
    /\ ts[2] = << >> \/ ip_address(ts[2]).exc = ""
    /\ int(ts[3]).exc = ""
    /\ Len(ts) = 4 => ts[4] \in {<<"single">>, <<"dual">>}
    /\ ts[1] \in {<<"tcp4">>, <<"udp4">>} =>
          ts[2] = << >> \/ ip_address(ts[2]).val.py = "IPv4Address"
    /\ ts[1] \in {<<"tcp6">>, <<"udp6">>} =>
          ts[2] = << >> \/ ip_address(ts[2]).val.py = "IPv6Address"

\* the socket objects of a collection are live, each on its open socket
LiveCollection(resources) ==
    \A i \in 1..Len(resources) :
        resources[i] \in handles /\ fds[resources[i].fd].kind = "socket"

\* C1: for a collection of two or more distinct descriptors, each mapped to a
\* live handle, decode_resource_values of the string encode_resource_values
\* returned for it returns a mapping with an entry for each descriptor, whose
\* handle is bound to the local address of the original.
C1_CollectionRoundTrip ==
    [][(/\ ret.op = "encode_resource_values"
        /\ ret.exc = ""
        /\ Len(ret.resources) >= 2
        /\ LiveCollection(ret.resources)
        /\ ret'.op = "decode_resource_values"
        /\ ret'.values = ret.val)
       => /\ ret'.exc = ""
          /\ \A i \in 1..Len(ret.resources) :
                \E h \in ret'.val :
                   /\ h.res = ret.resources[i].res
                   /\ fds'[h.fd].kind = "socket"
                   /\ fds'[h.fd].family = fds[ret.resources[i].fd].family
                   /\ fds'[h.fd].laddr = fds[ret.resources[i].fd].laddr]_vars

\* C2: a handle that decode returns for a descriptor is a socket of the
\* descriptor's family and type bound to the address the descriptor states.
C2_DecodedHandleBoundToStatedAddress ==
    (ret.op = "decode" /\ ret.val # None)
    => /\ fds[ret.val.fd].kind = "socket"
       /\ fds[ret.val.fd].laddr = ret.res.addr
       /\ fds[ret.val.fd].family = ret.res.family
       /\ fds[ret.val.fd].type = ret.res.type

\* C3: when an entry of the string given to decode_resource_values carries an
\* identifier that is not registered, the call raises and hands back no mapping,
\* whatever the position of the entry and whatever the other entries.
C3_UnknownIdentifierRaises ==
    (/\ ret.op = "decode_resource_values"
     /\ \E i \in 1..MaxEntries + 1 : UnknownIdentAt(ret.values, i))
    => ret.exc # "" /\ ret.val = {}

\* C3 witness: the unregistered identifier comes second, after an entry of a
\* registered kind, and the call has raised.
C3_Witness ==
    /\ ret.op = "decode_resource_values"
    /\ UnknownIdentAt(ret.values, 2)
    /\ Registered(EntryIdent(EntryParts(ret.values)[1]))
    /\ ret.exc # ""

\* C4: when every entry's spec body denotes a descriptor and some entry's handle
\* value is not an integer, decode_resource_values does not raise: it maps that
\* descriptor to a fresh handle from create() and restores the other entries.
C4_UndecodableValueFallsBack ==
    (/\ ret.op = "decode_resource_values"
     /\ LET ps == EntryParts(ret.values) IN
        /\ \A i \in 1..Len(ps) : Len(ps[i]) = 2 /\ SpecOfGrammar(ps[i][2])
        /\ \E i \in 1..Len(ps) : int(ps[i][1]).exc # "")
    => /\ ret.exc = ""
       /\ ret.val # {}
       /\ \A h \in ret.val : h \in handles /\ fds[h.fd].kind = "socket"

\* C5: encode_spec of a descriptor R returns (ident, tokens) without raising,
\* and decode_spec(ident, tokens) returns a descriptor of the same family, type
\* and address as R.
C5_SpecRoundTrip ==
    [][/\ ret'.op = "encode_spec" => ret'.exc = ""
       /\ (/\ ret.op = "encode_spec"
           /\ ret.exc = ""
           /\ ret'.op = "decode_spec"
           /\ ret'.ident = ret.val.ident
           /\ ret'.args = ret.val.args)
          => /\ ret'.exc = ""
             /\ ret'.val # None
             /\ ret'.val.family = ret.self.family
             /\ ret'.val.type = ret.self.type
             /\ ret'.val.addr = ret.self.addr]_vars

\* C6: the descriptor whose number encode(h) returned is still open, on the
\* socket of h, after destroy(h).
C6_EncodedDescriptorOutlivesHandle ==
    [][(/\ ret.op = "encode"
        /\ ret.exc = ""
        /\ ret'.op = "destroy"
        /\ ret'.instance = ret.instance)
       => /\ IsOpen(fds', int(ret.val).val)
          /\ fds'[int(ret.val).val].kind = "socket"
          /\ fds'[int(ret.val).val].sock = fds[ret.instance.fd].sock]_vars

\* what the host given to a constructor stands for: "any" (no host), "v4", "v6",
\* or for a name the family of the first INET or INET6 result ("none" without one)
HostKind(host, gai) ==
    IF host.py = "IPv4Address" THEN "v4"
    ELSE IF host.py = "IPv6Address" THEN "v6"
    ELSE IF ~IsName(host) THEN "any"
    ELSE LET usable == {i \in 1..Len(gai) : gai[i].family \in {"AF_INET", "AF_INET6"}} IN
         IF usable = {} THEN "none"
         ELSE IF gai[CHOOSE i \in usable : \A j \in usable : i <= j].family = "AF_INET6"
         THEN "v6" ELSE "v4"

\* C7 as claimed: with dual-stack requested on a platform without dual-stack
\* sockets, construction fails for every kind of host.
C7_DualstackRequestAlwaysFails ==
    (ret.op = "construct" /\ ret.dualstack = "True" /\ ~platform.dualstack)
    => ret.exc # ""

\* C7 as amended: with dual-stack requested on a platform without dual-stack
\* sockets, construction fails with the dual-stack error when the host is an
\* IPv6 literal or a name resolved to IPv6 (and with the resolution error when a
\* name resolves to nothing); for a wildcard host, an IPv4 literal or a name
\* resolved to IPv4 it produces an IPv4 descriptor with dual-stack false.
C7_DualstackRequestFailsForIPv6 ==
    (ret.op = "construct" /\ ret.dualstack = "True" /\ ~platform.dualstack)
    => LET k == HostKind(ret.host, ret.gai) IN
       /\ k = "v6" => ret.exc = "ValueError: dual-stack requested but not available"
       /\ k = "none" => ret.exc = "ValueError: can not resolve"
       /\ k \in {"any", "v4"} =>
             /\ ret.exc = ""
             /\ ret.val.family = "AF_INET"
             /\ ret.val.dualstack = FALSE

\* C7 witness: dual-stack requested for an IPv6 literal on a platform without
\* dual-stack sockets, and the constructor has raised.
C7_Witness ==
    /\ ret.op = "construct"
    /\ ret.dualstack = "True"
    /\ ~platform.dualstack
    /\ ret.host = IPv6Address("::1")
    /\ ret.exc # ""

\* C8: decode_spec with a forced-family identifier and tokens [host, port]
\* raises the family-mismatch error when host is a literal of the other family,
\* and returns a descriptor of the forced family when host is a literal of that
\* family or empty.
C8_ForcedFamilyDecode ==
    (/\ ret.op = "decode_spec"
     /\ ret.ident \in {"tcp4", "tcp6", "udp4", "udp6"}
     /\ Len(ret.args) = 2
     /\ ret.args[1] = << >> \/ ip_address(ret.args[1]).exc = ""
     /\ int(ret.args[2]).exc = "")
    => LET forced == IF ret.ident \in {"tcp4", "udp4"} THEN "IPv4Address"
                     ELSE "IPv6Address"
           other == ret.args[1] # << >> /\ ip_address(ret.args[1]).val.py # forced IN
       IF other
       THEN ret.exc \in {"ValueError: IPv6 address given for IPv4 socket",
                         "ValueError: IPv4 address given for IPv6 socket"}
       ELSE /\ ret.exc = ""
            /\ ret.val # None
            /\ ret.val.family = (IF forced = "IPv4Address" THEN "AF_INET" ELSE "AF_INET6")

\* C9: a descriptor constructed with a host name is IPv6 when the resolver's
\* list holds an IPv6 result, in any position; IPv4 when it holds IPv4 results
\* and no IPv6 result; and construction fails with the resolution error when it
\* holds neither.  (Stated where the dual-stack check cannot interfere.)
C9_ResolverPrefersIPv6 ==
    (ret.op = "construct" /\ IsName(ret.host) /\ ret.dualstack # "True")
    => LET has6 == \E i \in 1..Len(ret.gai) : ret.gai[i].family = "AF_INET6"
           has4 == \E i \in 1..Len(ret.gai) : ret.gai[i].family = "AF_INET" IN
       IF has6
       THEN ret.exc = "" /\ ret.val.family = "AF_INET6"
                         /\ ret.val.addr.host = PyStr(<<"::1">>)
       ELSE IF has4
       THEN ret.exc = "" /\ ret.val.family = "AF_INET"
                         /\ ret.val.addr.host = PyStr(<<"10.0.0.1">>)
       ELSE ret.exc = "ValueError: can not resolve"

\* the descriptor numbers open on socket s
FdsOn(tbl, s) == {n \in FdNums : tbl[n].kind = "socket" /\ tbl[n].sock = s}

\* C10: decode never closes a descriptor.  A decode whose text names an open
\* socket descriptor returns a handle on a number that was free, on the same
\* socket, and changes nothing else, so one more descriptor is open; an exec
\* keeps every descriptor marked inheritable; and a descriptor no socket object
\* owns is closed by nothing but an exec.  Each handoff (encode, exec, decode)
\* therefore leaves one more descriptor open on the socket.
C10_DecodeLeavesDescriptorsOpen ==
    [][/\ ret'.op = "decode" =>
             /\ \A k \in FdNums : IsOpen(fds, k) => fds'[k] = fds[k]
             /\ LET n == int(ret'.value) IN
                (n.exc = "" /\ IsOpen(fds, n.val) /\ fds[n.val].kind = "socket")
                => /\ ret'.val # None
                   /\ ret'.val.fd # n.val
                   /\ ~IsOpen(fds, ret'.val.fd)
                   /\ fds'[ret'.val.fd].kind = "socket"
                   /\ fds'[ret'.val.fd].sock = fds[n.val].sock
                   /\ \A k \in FdNums \ {ret'.val.fd} : fds'[k] = fds[k]
                   /\ Cardinality(FdsOn(fds', fds[n.val].sock))
                         = Cardinality(FdsOn(fds, fds[n.val].sock)) + 1
       /\ ret'.op = "exec" =>
             \A k \in FdNums : (IsOpen(fds, k) /\ fds[k].inheritable) => fds'[k] = fds[k]
       /\ ret'.op # "exec" =>
             \A k \in FdNums :
                (IsOpen(fds, k) /\ ~\E h \in handles : h.fd = k) => fds'[k] = fds[k]]_vars

\* C10 witness: a successor has decoded the number handed to it, which its
\* predecessor had itself decoded and encoded: the socket is open on the two
\* inherited descriptors, which no socket object owns, and on the new one.
C10_Witness ==
    /\ ret.op = "decode"
    /\ ret.val # None
    /\ ret.val.fd = 5
    /\ ret.value = <<"4">>
    /\ handles = {ret.val}
    /\ FdsOn(fds, fds[5].sock) = {3, 4, 5}
    /\ fds[3].inheritable /\ fds[4].inheritable

====
